---------------------------- MODULE Spec2Model ----------------------------
(***************************************************************************)
(* Release helper scripts of .github/scripts: inspect.py                   *)
(* (get_chain_and_version, get_previous_version), docker_setup_matrix.py,  *)
(* extrinsic_check_setup_env.py, publish_release_setup_env.py and          *)
(* setup-env.py.                                                           *)
(*                                                                         *)
(* A Python str is a sequence of one-character strings, so that searching, *)
(* splitting, stripping and formatting are computed character by           *)
(* character.  A Python call returns a record [exc, val]: exc is "None"    *)
(* when the call returns val and the name of the exception it raises       *)
(* otherwise.  An optional value (os.getenv, re.search) is <<>> for None   *)
(* and <<v>> for the value v.                                              *)
(***************************************************************************)
EXTENDS Integers, Sequences, FiniteSets, TLC

VARIABLES
    refs,           \* origin's branches, oldest committer date first
    GITHUB_OUTPUT,  \* the text of the step output file
    GITHUB_ENV,     \* the text of the environment file
    run,            \* the script the job ran, its input and how it ended
    call            \* a function applied to a drawn input, and its result

vars == <<refs, GITHUB_OUTPUT, GITHUB_ENV, run, call>>

(***************************************************************************)
(* Bounds of the model.                                                    *)
(***************************************************************************)
\* branches origin holds at most
MaxRefs == 3
\* lines of an injected raw branch listing at most
MaxLines == 3
\* digits of one version component at most
MaxDigits == 2

(***************************************************************************)
(* Characters and strings.                                                 *)
(***************************************************************************)
RELEASE == <<"r", "e", "l", "e", "a", "s", "e", "-">>
MANDALA == <<"m", "a", "n", "d", "a", "l", "a">>
KARURA == <<"k", "a", "r", "u", "r", "a">>
ACALA == <<"a", "c", "a", "l", "a">>
ORIGIN == <<"o", "r", "i", "g", "i", "n", "/">>
REMOTES == <<"r", "e", "m", "o", "t", "e", "s", "/">>
REFS_HEADS == <<"r", "e", "f", "s", "/", "h", "e", "a", "d", "s", "/">>
MASTER == <<"m", "a", "s", "t", "e", "r">>
INDENT == <<" ", " ">>
NL == <<"\n">>
DOT == <<".">>
DASH == <<"-">>

\* the characters \d matches
Digit == {"0", "1", "2", "3", "4", "5", "6", "7", "8", "9"}

\* the characters str.strip() removes
Whitespace == {" ", "\t", "\n", "\r", "\f"}

\* the characters of branch names in byte order (git sorts refnames by byte)
ByteOrder ==
    <<"\t", "\n", " ", "-", ".", "/",
      "0", "1", "2", "3", "4", "5", "6", "7", "8", "9",
      "a", "b", "c", "d", "e", "f", "g", "h", "i", "j", "k", "l", "m",
      "n", "o", "p", "q", "r", "s", "t", "u", "v", "w", "x", "y", "z">>

Ord(c) == CHOOSE i \in 1..Len(ByteOrder) : ByteOrder[i] = c

Min(S) == CHOOSE x \in S : \A y \in S : x <= y

\* s[i:] starts with p (i is 1-based)
StartsWith(s, i, p) ==
    /\ i + Len(p) - 1 <= Len(s)
    /\ SubSeq(s, i, i + Len(p) - 1) = p

\* p in s
Contains(s, p) == \E i \in 1..(Len(s) + 1) : StartsWith(s, i, p)

\* s.split(sep) for a one-character sep: the pieces between the separators
Split(s, sep) ==
    LET at == {i \in 1..Len(s) : s[i] = sep}
        cut == [k \in 0..(Cardinality(at) + 1) |->
                   IF k = 0 THEN 0
                   ELSE IF k = Cardinality(at) + 1 THEN Len(s) + 1
                   ELSE CHOOSE i \in at : Cardinality({j \in at : j < i}) = k - 1]
    IN  [k \in 1..(Cardinality(at) + 1) |-> SubSeq(s, cut[k - 1] + 1, cut[k] - 1)]

\* s.strip()
Strip(s) ==
    LET keep == {i \in 1..Len(s) : s[i] \notin Whitespace}
    IN  IF keep = {} THEN <<>>
        ELSE SubSeq(s, Min(keep), CHOOSE i \in keep : \A j \in keep : j <= i)

\* "".join(parts)
RECURSIVE Concat(_)
Concat(parts) ==
    IF parts = <<>> THEN <<>> ELSE Head(parts) \o Concat(Tail(parts))

(***************************************************************************)
(* The regular expression release-(<chain>|...)-(\d+\.\d+\.\d+).           *)
(***************************************************************************)
\* inspect.py: the chains of the alternation, in its order
regex == <<MANDALA, KARURA, ACALA>>

\* setup-env.py: the chains of its alternation
setup_env_regex == <<KARURA, ACALA>>

\* a pattern \d\.\d\.\d: one digit for each component
one_digit_end(s, i) ==
    IF i <= Len(s) /\ s[i] \in Digit THEN i + 1 ELSE i

\* \d+ at i is greedy: the index after the longest run of digits from i
RECURSIVE DigitsEnd(_, _)
DigitsEnd(s, i) ==
    IF i <= Len(s) /\ s[i] \in Digit THEN DigitsEnd(s, i + 1) ELSE i

\* \d+\.\d+\.\d+ at i: the index after the match, 0 when there is none.  A
\* digit is never a dot, so giving back digits never makes a match.
VersionEnd(s, i) ==
    LET a == DigitsEnd(s, i)
        b == DigitsEnd(s, a + 1)
        c == DigitsEnd(s, b + 1)
    IN  IF /\ a > i /\ a <= Len(s) /\ s[a] = "."
           /\ b > a + 1 /\ b <= Len(s) /\ s[b] = "."
           /\ c > b + 1
        THEN c ELSE 0

\* the whole pattern at i with the k-th chain of the alternation
MatchesAt(alts, s, i, k) ==
    LET j == i + Len(RELEASE) + Len(alts[k])
    IN  /\ StartsWith(s, i, RELEASE)
        /\ StartsWith(s, i + Len(RELEASE), alts[k])
        /\ StartsWith(s, j, DASH)
        /\ VersionEnd(s, j + 1) > 0

\* re.search(regex, string): None (<<>>) or the leftmost match, the first
\* alternative that matches there, as <<[g1, g2]>>
re_search(alts, string) ==
    LET at == {i \in 1..Len(string) :
                   \E k \in 1..Len(alts) : MatchesAt(alts, string, i, k)}
    IN  IF at = {} THEN <<>>
        ELSE LET i == Min(at)
                 k == Min({n \in 1..Len(alts) : MatchesAt(alts, string, i, n)})
                 j == i + Len(RELEASE) + Len(alts[k]) + 1
             IN  <<[g1 |-> alts[k],
                    g2 |-> SubSeq(string, j, VersionEnd(string, j) - 1)]>>

(***************************************************************************)
(* inspect.py                                                              *)
(***************************************************************************)
Returns(v) == [exc |-> "None", val |-> v]
Raises(e) == [exc |-> e, val |-> <<>>]

\* a parser that falls back to a default chain and version when nothing matches
get_chain_and_version_or_default(branch_name) ==
    IF branch_name = <<>> THEN Raises("TypeError")
    ELSE LET x == re_search(regex, branch_name[1])
         IN  IF x = <<>> THEN Returns(<<MANDALA, <<"0", ".", "0", ".", "0">>>>)
             ELSE Returns(<<x[1].g1, x[1].g2>>)

\* get_chain_and_version(branch_name); branch_name is an optional str, as
\* os.getenv gives it.  re.search raises TypeError on None, and x.group
\* raises AttributeError when x is None.
get_chain_and_version(branch_name) ==
    IF branch_name = <<>> THEN Raises("TypeError")
    ELSE LET x == re_search(regex, branch_name[1])
         IN  IF x = <<>> THEN Raises("AttributeError")
             ELSE Returns(<<x[1].g1, x[1].g2>>)

\* seq[i] with a Python index: i >= 0 counts from the front (0-based), i < 0
\* from the back; IndexError outside -len..len-1
PyIndex(seq, i) ==
    IF i >= 0
    THEN IF i < Len(seq) THEN Returns(seq[i + 1]) ELSE Raises("IndexError")
    ELSE IF -i <= Len(seq) THEN Returns(seq[Len(seq) + i + 1])
         ELSE Raises("IndexError")

\* git sorts refnames byte by byte; a proper prefix sorts first
RECURSIVE NameBefore(_, _)
NameBefore(a, b) ==
    IF a = <<>> THEN b # <<>>
    ELSE IF b = <<>> THEN FALSE
    ELSE IF Head(a) = Head(b) THEN NameBefore(Tail(a), Tail(b))
    ELSE Ord(Head(a)) < Ord(Head(b))

RECURSIVE SortByName(_)
SortByName(names) ==
    IF names = {} THEN <<>>
    ELSE LET first == CHOOSE a \in names :
                          \A b \in names \ {a} : NameBefore(a, b)
         IN  <<first>> \o SortByName(names \ {first})

Range(seq) == {seq[i] : i \in 1..Len(seq)}

\* lines | grep pattern
Grep(lines, pattern) == SelectSeq(lines, LAMBDA l : Contains(l, pattern))

\* the text a command writes: its lines, each ended by a newline
Text(lines) == Concat([i \in 1..Len(lines) |-> lines[i] \o NL])

\* git branch --remote --sort=committerdate: the remote-tracking branches,
\* oldest commit first.  origin holds the branch names in that order.
git_branch_remote_by_committerdate(origin) ==
    [i \in 1..Len(origin) |-> INDENT \o ORIGIN \o origin[i]]

\* os.popen("git branch --remote --sort=committerdate
\*           | grep origin/release-{}-".format(chain)).read()
popen_read(chain, origin) ==
    Text(Grep(git_branch_remote_by_committerdate(origin),
              ORIGIN \o RELEASE \o chain \o DASH))

\* map(strip) with the filter(None) left out
stripped_unfiltered(lines) == [i \in 1..Len(lines) |-> Strip(lines[i])]

\* map(strip), then filter(None): the stripped lines that are not empty
nonempty_stripped(lines) ==
    SelectSeq([i \in 1..Len(lines) |-> Strip(lines[i])], LAMBDA l : l # <<>>)

\* a selection that takes the only branch when there is no second-to-last
select_previous_or_only(branches) ==
    IF Len(branches) = 1 THEN Returns(branches[1]) ELSE PyIndex(branches, -2)

\* previous_branches = branches[-2]
select_previous(branches) == PyIndex(branches, -2)

\* get_previous_version from cmd.read() on: split, strip, filter, select,
\* search, group(2)
previous_version_of(output) ==
    LET branches == nonempty_stripped(Split(output, "\n"))
        previous_branches == select_previous(branches)
    IN  IF previous_branches.exc # "None" THEN Raises(previous_branches.exc)
        ELSE LET x == re_search(regex, previous_branches.val)
             IN  IF x = <<>> THEN Raises("AttributeError")
                 ELSE Returns(x[1].g2)

\* get_previous_version(chain) in a repository whose remote branches are origin
get_previous_version(chain, origin) == previous_version_of(popen_read(chain, origin))

(***************************************************************************)
(* The scripts.  A script returns [exc, written]: the exception that ends  *)
(* it ("None": it ends normally) and the text it appended to its file.     *)
(***************************************************************************)
RUNTIME == <<"r", "u", "n", "t", "i", "m", "e">>
FULL == <<"f", "u", "l", "l">>
K_MATRIX == <<"m", "a", "t", "r", "i", "x", "=">>
K_VERSION == <<"v", "e", "r", "s", "i", "o", "n", "=">>
K_ENV_CHAIN == <<"C", "H", "A", "I", "N", "=">>
K_ENV_VERSION == <<"V", "E", "R", "S", "I", "O", "N", "=">>
K_ENV_PREVIOUS ==
    <<"P", "R", "E", "V", "I", "O", "U", "S", "_",
      "V", "E", "R", "S", "I", "O", "N", "=">>
K_ENV_SCOPE == <<"S", "C", "O", "P", "E", "=">>
MATRIX_OPEN ==
    <<"{", "\"", "n", "e", "t", "w", "o", "r", "k", "\"", ":", " ", "[", "\"">>
MATRIX_CLOSE == <<"\"", "]", "}">>
MATRIX_DEFAULT ==
    <<"{", "\"", "n", "e", "t", "w", "o", "r", "k", "\"", ":", " ", "[",
      "\"", "m", "a", "n", "d", "a", "l", "a", "\"", ",", " ",
      "\"", "k", "a", "r", "u", "r", "a", "\"", ",", " ",
      "\"", "a", "c", "a", "l", "a", "\"", "]", "}">>

Ended(e, text) == [exc |-> e, written |-> text]

\* is_patch = previous_version.split(".")[1] == version.split(".")[1]
\* scope = "runtime" if is_patch else "full"
scope_of(previous_version, version) ==
    LET is_patch == Split(previous_version, ".")[2] = Split(version, ".")[2]
    IN  IF is_patch THEN RUNTIME ELSE FULL

\* a docker_setup_matrix.py that leaves the version line out
docker_setup_matrix_no_version(argv) ==
    LET branch == IF Len(argv) > 0 THEN argv[1] ELSE <<>>
    IN  IF Contains(branch, RELEASE)
        THEN LET cv == get_chain_and_version(<<branch>>)
             IN  IF cv.exc # "None" THEN Ended(cv.exc, <<>>)
                 ELSE Ended("None", K_MATRIX \o MATRIX_OPEN \o cv.val[1]
                                     \o MATRIX_CLOSE \o NL)
        ELSE Ended("None", K_MATRIX \o MATRIX_DEFAULT \o NL)

\* docker_setup_matrix.py; argv is sys.argv[1:].  Appends to GITHUB_OUTPUT.
docker_setup_matrix(argv) ==
    LET branch == IF Len(argv) > 0 THEN argv[1] ELSE <<>>
    IN  IF Contains(branch, RELEASE)
        THEN LET cv == get_chain_and_version(<<branch>>)
             IN  IF cv.exc # "None" THEN Ended(cv.exc, <<>>)
                 ELSE LET matrix == MATRIX_OPEN \o cv.val[1] \o MATRIX_CLOSE
                      IN  Ended("None", K_MATRIX \o matrix \o NL
                                         \o K_VERSION \o cv.val[2] \o NL)
        ELSE Ended("None", K_MATRIX \o MATRIX_DEFAULT \o NL)

\* an extrinsic_check_setup_env.py that opens the file and writes CHAIN and
\* VERSION before it resolves the previous version
extrinsic_check_setup_env_eager(GITHUB_REF, origin) ==
    LET cv == get_chain_and_version(GITHUB_REF)
    IN  IF cv.exc # "None" THEN Ended(cv.exc, <<>>)
        ELSE LET head == K_ENV_CHAIN \o cv.val[1] \o NL
                          \o K_ENV_VERSION \o cv.val[2] \o NL
                 previous_version == get_previous_version(cv.val[1], origin)
             IN  IF previous_version.exc # "None"
                 THEN Ended(previous_version.exc, head)
                 ELSE Ended("None", head \o K_ENV_PREVIOUS
                                     \o previous_version.val \o NL)

\* extrinsic_check_setup_env.py.  Appends to GITHUB_ENV.
extrinsic_check_setup_env(GITHUB_REF, origin) ==
    LET cv == get_chain_and_version(GITHUB_REF)
    IN  IF cv.exc # "None" THEN Ended(cv.exc, <<>>)
        ELSE LET previous_version == get_previous_version(cv.val[1], origin)
             IN  IF previous_version.exc # "None"
                 THEN Ended(previous_version.exc, <<>>)
                 ELSE Ended("None",
                            K_ENV_CHAIN \o cv.val[1] \o NL
                            \o K_ENV_VERSION \o cv.val[2] \o NL
                            \o K_ENV_PREVIOUS \o previous_version.val \o NL)

\* publish_release_setup_env.py.  Appends to GITHUB_ENV.
publish_release_setup_env(GITHUB_REF, origin) ==
    LET cv == get_chain_and_version(GITHUB_REF)
    IN  IF cv.exc # "None" THEN Ended(cv.exc, <<>>)
        ELSE LET previous_version == get_previous_version(cv.val[1], origin)
             IN  IF previous_version.exc # "None"
                 THEN Ended(previous_version.exc, <<>>)
                 ELSE Ended("None",
                            K_ENV_CHAIN \o cv.val[1] \o NL
                            \o K_ENV_SCOPE
                            \o scope_of(previous_version.val, cv.val[2]) \o NL)

\* git branch -a: the remote-tracking branches as remotes/origin/<name>, in
\* refname order (the local branches it lists first never hold the pattern
\* remotes/origin/release-)
git_branch_all(origin) ==
    LET sorted == SortByName(Range(origin))
    IN  [i \in 1..Len(sorted) |-> INDENT \o REMOTES \o ORIGIN \o sorted[i]]

\* os.popen("git branch -a | grep remotes/origin/release-{}-".format(chain))
\*     .read()
setup_env_popen_read(chain, origin) ==
    Text(Grep(git_branch_all(origin), REMOTES \o ORIGIN \o RELEASE \o chain \o DASH))

\* setup-env.py.  Appends to GITHUB_ENV.
setup_env(GITHUB_REF, origin) ==
    IF GITHUB_REF = <<>> THEN Ended("TypeError", <<>>)
    ELSE LET x == re_search(setup_env_regex, GITHUB_REF[1])
         IN  IF x = <<>> THEN Ended("AttributeError", <<>>)
             ELSE LET chain == x[1].g1
                      version == x[1].g2
                      branches == nonempty_stripped(
                          Split(setup_env_popen_read(chain, origin), "\n"))
                      previous_branches == PyIndex(branches, -2)
                  IN  IF previous_branches.exc # "None"
                      THEN Ended(previous_branches.exc, <<>>)
                      ELSE LET y == re_search(setup_env_regex,
                                              previous_branches.val)
                           IN  IF y = <<>> THEN Ended("AttributeError", <<>>)
                               ELSE Ended("None",
                                          K_ENV_CHAIN \o chain \o NL
                                          \o K_ENV_SCOPE
                                          \o scope_of(y[1].g2, version) \o NL)

(***************************************************************************)
(* Inputs.                                                                 *)
(***************************************************************************)
Ver(major, minor, patch) == major \o DOT \o minor \o DOT \o patch

ReleaseBranch(chain, version) == RELEASE \o chain \o DASH \o version

V_2_8_3 == Ver(<<"2">>, <<"8">>, <<"3">>)
V_2_9_5 == Ver(<<"2">>, <<"9">>, <<"5">>)
V_2_10_0 == Ver(<<"2">>, <<"1", "0">>, <<"0">>)
NEXT_BRANCH == RELEASE \o KARURA \o DASH \o <<"n", "e", "x", "t">>

Chains == {MANDALA, KARURA, ACALA}

\* the branches origin may hold
RemoteBranches ==
    {MASTER, NEXT_BRANCH,
     ReleaseBranch(KARURA, V_2_8_3), ReleaseBranch(KARURA, V_2_9_5),
     ReleaseBranch(KARURA, V_2_10_0), ReleaseBranch(ACALA, V_2_9_5)}

\* A branch input: text is the optional string handed to the script
\* (GITHUB_REF, or sys.argv[1:]); kind, chain and version say how it was made.
ReleaseInput(prefix, chain, version) ==
    [text |-> <<prefix \o ReleaseBranch(chain, version)>>, kind |-> "release",
     chain |-> chain, version |-> version]

OtherInput(kind, text) ==
    [text |-> text, kind |-> kind, chain |-> <<>>, version |-> <<>>]

BranchInputs ==
    {ReleaseInput(REFS_HEADS, KARURA, V_2_10_0),
     ReleaseInput(ORIGIN, KARURA, V_2_9_5),
     ReleaseInput(<<>>, ACALA, V_2_9_5),
     ReleaseInput(REFS_HEADS, MANDALA, V_2_9_5),
     OtherInput("malformed", <<REFS_HEADS \o NEXT_BRANCH>>),
     OtherInput("other", <<REFS_HEADS \o MASTER>>),
     OtherInput("absent", <<>>)}

\* what a file holds when a job's step starts
PriorText == {<<>>, <<"C", "I", "=", "t", "r", "u", "e", "\n">>}

Idle ==
    [script |-> "idle", input |-> OtherInput("absent", <<>>), exc |-> "None",
     ret |-> <<>>, output0 |-> <<>>, env0 |-> <<>>]

NoCall == [fn |-> "none", arg |-> <<>>, ret |-> <<>>, done |-> FALSE]

(***************************************************************************)
(* The release jobs: origin's branches move, a job starts with the files   *)
(* the runner provides, and one script runs in it.                         *)
(***************************************************************************)
Init ==
    /\ refs = <<>>
    /\ GITHUB_OUTPUT = <<>>
    /\ GITHUB_ENV = <<>>
    /\ run = Idle
    /\ call = NoCall

\* a commit is pushed to branch b: b becomes the branch committed to last
Push(b) ==
    /\ run.script = "idle"
    /\ \/ b \in Range(refs)
       \/ Len(refs) < MaxRefs
    /\ refs' = Append(SelectSeq(refs, LAMBDA r : r # b), b)
    /\ UNCHANGED <<GITHUB_OUTPUT, GITHUB_ENV, run, call>>

\* the next job starts: the runner provides its two files
StartJob(prior) ==
    /\ run.script # "idle"
    /\ GITHUB_OUTPUT' = prior
    /\ GITHUB_ENV' = prior
    /\ run' = Idle
    /\ UNCHANGED <<refs, call>>

Ran(script, input, result, ret) ==
    run' = [script |-> script, input |-> input, exc |-> result.exc,
            ret |-> ret, output0 |-> GITHUB_OUTPUT, env0 |-> GITHUB_ENV]

RunDockerSetupMatrix(input) ==
    /\ run.script = "idle"
    /\ LET result == docker_setup_matrix(input.text)
       IN  /\ GITHUB_OUTPUT' = GITHUB_OUTPUT \o result.written
           /\ Ran("docker_setup_matrix", input, result, <<>>)
    /\ UNCHANGED <<refs, GITHUB_ENV, call>>

RunExtrinsicCheckSetupEnv(input) ==
    /\ run.script = "idle"
    /\ LET result == extrinsic_check_setup_env(input.text, refs)
       IN  /\ GITHUB_ENV' = GITHUB_ENV \o result.written
           /\ Ran("extrinsic_check_setup_env", input, result, <<>>)
    /\ UNCHANGED <<refs, GITHUB_OUTPUT, call>>

RunPublishReleaseSetupEnv(input) ==
    /\ run.script = "idle"
    /\ LET result == publish_release_setup_env(input.text, refs)
       IN  /\ GITHUB_ENV' = GITHUB_ENV \o result.written
           /\ Ran("publish_release_setup_env", input, result, <<>>)
    /\ UNCHANGED <<refs, GITHUB_OUTPUT, call>>

RunSetupEnv(input) ==
    /\ run.script = "idle"
    /\ LET result == setup_env(input.text, refs)
       IN  /\ GITHUB_ENV' = GITHUB_ENV \o result.written
           /\ Ran("setup-env", input, result, <<>>)
    /\ UNCHANGED <<refs, GITHUB_OUTPUT, call>>

\* test_inspect.py calls inspect.get_chain_and_version on a string
CallGetChainAndVersion(input) ==
    /\ run.script = "idle"
    /\ input.text # <<>>
    /\ LET result == get_chain_and_version(input.text)
       IN  Ran("get_chain_and_version", input, result, result.val)
    /\ UNCHANGED <<refs, GITHUB_OUTPUT, GITHUB_ENV, call>>

Next ==
    \/ \E b \in RemoteBranches : Push(b)
    \/ \E prior \in PriorText : StartJob(prior)
    \/ \E input \in BranchInputs : RunDockerSetupMatrix(input)
    \/ \E input \in BranchInputs : RunExtrinsicCheckSetupEnv(input)
    \/ \E input \in BranchInputs : RunPublishReleaseSetupEnv(input)
    \/ \E input \in BranchInputs : RunSetupEnv(input)
    \/ \E input \in BranchInputs : CallGetChainAndVersion(input)

Spec == Init /\ [][Next]_vars

(***************************************************************************)
(* The functions on drawn inputs: the initial state draws the input, the   *)
(* one step applies the function to the text made from it.                 *)
(***************************************************************************)
VersionDigits == {"0", "1"}

\* the digit strings of a version component
Components == UNION {[1..n -> VersionDigits] : n \in 1..MaxDigits}

Prefixes == {<<>>, ORIGIN, REMOTES \o ORIGIN}

\* get_chain_and_version: a release branch, by its parts
ParseArgs ==
    [prefix : Prefixes, chain : Chains,
     major : Components, minor : Components, patch : Components]

BranchText(a) ==
    a.prefix \o ReleaseBranch(a.chain, Ver(a.major, a.minor, a.patch))

\* get_previous_version: the lines the listing command wrote
BlankLine(text) == [text |-> text, blank |-> TRUE, version |-> <<>>]

BranchLine(version) ==
    [text |-> INDENT \o ORIGIN \o ReleaseBranch(KARURA, version),
     blank |-> FALSE, version |-> version]

ListingLines ==
    {BlankLine(<<>>), BlankLine(INDENT), BlankLine(<<"\t">>),
     BranchLine(V_2_8_3), BranchLine(V_2_9_5), BranchLine(V_2_10_0)}

ListingArgs == UNION {[1..n -> ListingLines] : n \in 0..MaxLines}

ListingText(lines) == Text([i \in 1..Len(lines) |-> lines[i].text])

\* the scope rule: a previous and a current version, by their parts
ScopeVersions ==
    [major : {<<"1">>, <<"2">>},
     minor : {<<"9">>, <<"0", "9">>, <<"1", "0">>},
     patch : {<<"0">>, <<"1">>}]

ScopeArgs == [previous : ScopeVersions, current : ScopeVersions]

VerOf(v) == Ver(v.major, v.minor, v.patch)

Drawn(fn, arg) == [fn |-> fn, arg |-> arg, ret |-> <<>>, done |-> FALSE]

InitFn ==
    /\ refs = <<>>
    /\ GITHUB_OUTPUT = <<>>
    /\ GITHUB_ENV = <<>>
    /\ run = Idle
    /\ \/ \E a \in ParseArgs : call = Drawn("get_chain_and_version", a)
       \/ \E a \in ListingArgs : call = Drawn("get_previous_version", a)
       \/ \E a \in ScopeArgs : call = Drawn("scope", a)

Applied(ret) ==
    /\ ~call.done
    /\ call' = [call EXCEPT !.ret = ret, !.done = TRUE]
    /\ UNCHANGED <<refs, GITHUB_OUTPUT, GITHUB_ENV, run>>

ApplyGetChainAndVersion ==
    /\ call.fn = "get_chain_and_version"
    /\ Applied(get_chain_and_version(<<BranchText(call.arg)>>))

ApplyGetPreviousVersion ==
    /\ call.fn = "get_previous_version"
    /\ Applied(previous_version_of(ListingText(call.arg)))

ApplyScope ==
    /\ call.fn = "scope"
    /\ Applied(scope_of(VerOf(call.arg.previous), VerOf(call.arg.current)))

NextFn ==
    \/ ApplyGetChainAndVersion
    \/ ApplyGetPreviousVersion
    \/ ApplyScope

SpecFn == InitFn /\ [][NextFn]_vars

(***************************************************************************)
(* Properties.                                                             *)
(***************************************************************************)
Applying(fn) == call.fn = fn /\ call.done

\* the non-blank lines of a drawn listing, in order
NonBlank(lines) == SelectSeq(lines, LAMBDA l : ~l.blank)

\* the number a digit string writes
DigitValue(c) ==
    CHOOSE n \in 0..9 :
        <<"0", "1", "2", "3", "4", "5", "6", "7", "8", "9">>[n + 1] = c

RECURSIVE Num(_)
Num(digits) ==
    IF digits = <<>> THEN 0
    ELSE 10 * Num(SubSeq(digits, 1, Len(digits) - 1))
         + DigitValue(digits[Len(digits)])

EnvScripts ==
    {"extrinsic_check_setup_env", "publish_release_setup_env", "setup-env"}

\* C1: get_chain_and_version on release-<chain>-<M>.<m>.<p>, bare or prefixed
\* with origin/ or remotes/origin/, returns exactly (<chain>, <M>.<m>.<p>):
\* the result is that of the bare string whatever the prefix.
C1_ParseReturnsChainAndVersion ==
    Applying("get_chain_and_version") =>
        call.ret = Returns(<<call.arg.chain, VerOf(call.arg)>>)

\* C1 witness: a remotes/origin/ branch with a two-digit minor was parsed.
C1_Witness ==
    /\ Applying("get_chain_and_version")
    /\ call.arg.prefix = REMOTES \o ORIGIN
    /\ call.arg.chain = KARURA
    /\ call.arg.minor = <<"1", "0">>
    /\ call.ret.exc = "None"

\* C2: on a listing with at least two non-blank lines get_previous_version
\* returns the version of the second-to-last non-blank line; blank lines
\* anywhere, the trailing one included, do not change the line selected.
C2_PreviousIsSecondToLastNonBlank ==
    (Applying("get_previous_version") /\ Len(NonBlank(call.arg)) >= 2) =>
        call.ret =
            Returns(NonBlank(call.arg)[Len(NonBlank(call.arg)) - 1].version)

\* C2 witness: 2.9.5 was returned from a listing whose last line is blank and
\* whose two non-blank lines have a blank line between them.
C2_Witness ==
    /\ Applying("get_previous_version")
    /\ Len(call.arg) = 3
    /\ ~call.arg[1].blank /\ call.arg[2].blank /\ ~call.arg[3].blank
    /\ call.arg[1].version = V_2_9_5
    /\ call.ret = Returns(V_2_9_5)

\* C3: on a listing with fewer than two non-blank lines (none, or exactly
\* one) get_previous_version raises IndexError and returns no version.
C3_FewerThanTwoRaises ==
    (Applying("get_previous_version") /\ Len(NonBlank(call.arg)) < 2) =>
        call.ret = Raises("IndexError")

\* C3 witness: the listing held exactly one branch, among blank lines, and the
\* call raised IndexError.
C3_Witness ==
    /\ Applying("get_previous_version")
    /\ Len(NonBlank(call.arg)) = 1
    /\ Len(call.arg) > 1
    /\ call.ret.exc = "IndexError"

\* C4: the scope is runtime exactly when the minor numbers of the previous and
\* the current version are equal as numbers, and full otherwise.
C4_ScopeByMinorNumber ==
    Applying("scope") =>
        /\ call.ret \in {RUNTIME, FULL}
        /\ call.ret = RUNTIME <=>
               Num(call.arg.previous.minor) = Num(call.arg.current.minor)

\* C5: the scope is runtime only for a patch-level release: the major and the
\* minor number of the previous version are those of the current one.
C5_RuntimeOnlyForPatchLevel ==
    (Applying("scope") /\ call.ret = RUNTIME) =>
        /\ Num(call.arg.previous.major) = Num(call.arg.current.major)
        /\ Num(call.arg.previous.minor) = Num(call.arg.current.minor)

\* C6: docker_setup_matrix without a branch argument appends the default
\* matrix [mandala, karura, acala] and no version; with a valid release branch
\* it appends the one-chain matrix of the parsed chain and the parsed version.
C6_MatrixSelection ==
    run.script = "docker_setup_matrix" =>
        /\ run.input.kind = "absent" =>
               /\ run.exc = "None"
               /\ GITHUB_OUTPUT =
                      run.output0 \o K_MATRIX \o MATRIX_DEFAULT \o NL
        /\ run.input.kind = "release" =>
               /\ run.exc = "None"
               /\ GITHUB_OUTPUT =
                      run.output0
                      \o K_MATRIX \o MATRIX_OPEN \o run.input.chain
                      \o MATRIX_CLOSE \o NL
                      \o K_VERSION \o run.input.version \o NL

\* C6 witness: docker_setup_matrix ran on an acala release branch, after
\* earlier output.
C6_Witness ==
    /\ run.script = "docker_setup_matrix"
    /\ run.input.kind = "release"
    /\ run.input.chain = ACALA
    /\ run.output0 # <<>>
    /\ GITHUB_OUTPUT # run.output0

\* C7 as stated: on a present branch without a match, get_chain_and_version
\* and each of docker_setup_matrix, extrinsic_check_setup_env and
\* publish_release_setup_env end in an error and write nothing.
C7_MalformedAlwaysFails ==
    (/\ run.script \in {"get_chain_and_version", "docker_setup_matrix",
                        "extrinsic_check_setup_env",
                        "publish_release_setup_env"}
     /\ run.input.kind \in {"malformed", "other"}) =>
        /\ run.exc # "None"
        /\ GITHUB_OUTPUT = run.output0
        /\ GITHUB_ENV = run.env0

\* C7 amended: on a present branch without a match, get_chain_and_version,
\* extrinsic_check_setup_env and publish_release_setup_env end in an error and
\* write nothing; docker_setup_matrix does so when the branch contains
\* release-, and appends the default matrix when it does not.
C7_MalformedFailsUnlessNotRelease ==
    run.input.kind \in {"malformed", "other"} =>
        /\ run.script \in {"get_chain_and_version", "extrinsic_check_setup_env",
                           "publish_release_setup_env"} =>
               /\ run.exc = "AttributeError"
               /\ run.ret = <<>>
               /\ GITHUB_OUTPUT = run.output0
               /\ GITHUB_ENV = run.env0
        /\ (run.script = "docker_setup_matrix"
            /\ run.input.kind = "malformed") =>
               /\ run.exc = "AttributeError"
               /\ GITHUB_OUTPUT = run.output0
        /\ (run.script = "docker_setup_matrix" /\ run.input.kind = "other") =>
               /\ run.exc = "None"
               /\ GITHUB_OUTPUT =
                      run.output0 \o K_MATRIX \o MATRIX_DEFAULT \o NL

\* C7 witness: docker_setup_matrix ended in an error on a branch that contains
\* release- and has no match.
C7_Witness ==
    /\ run.script = "docker_setup_matrix"
    /\ run.input.kind = "malformed"
    /\ run.exc = "AttributeError"

\* C8: a run of a script that ends in a parse failure or in insufficient
\* branch history leaves both files as they were before the run.
C8_NoPartialOutput ==
    (/\ run.script \in EnvScripts \cup {"docker_setup_matrix"}
     /\ run.exc \in {"AttributeError", "IndexError"}) =>
        /\ GITHUB_OUTPUT = run.output0
        /\ GITHUB_ENV = run.env0

\* C8 witness: extrinsic_check_setup_env parsed its branch, then failed for
\* want of a second branch, with earlier text in the file.
C8_Witness ==
    /\ run.script = "extrinsic_check_setup_env"
    /\ run.input.kind = "release"
    /\ run.exc = "IndexError"
    /\ run.env0 # <<>>
    /\ refs # <<>>

\* C9: setup-env.py resolves the previous release by commit date as
\* publish_release_setup_env.py does: for the same ref and the same branches
\* of release branches it appends what publish_release_setup_env.py appends
\* (the same SCOPE).
C9_SetupEnvWritesScopeOfPublish ==
    (run.script = "setup-env" /\ NEXT_BRANCH \notin Range(refs)) =>
        GITHUB_ENV =
            run.env0 \o publish_release_setup_env(run.input.text, refs).written

\* C10: a successful extrinsic_check_setup_env never writes the version of the
\* branch being processed as PREVIOUS_VERSION, whatever the commit-date order
\* of the chain's release branches.
C10_PreviousDiffersFromCurrent ==
    (/\ run.script = "extrinsic_check_setup_env"
     /\ run.exc = "None"
     /\ NEXT_BRANCH \notin Range(refs)) =>
        GITHUB_ENV # run.env0
                     \o K_ENV_CHAIN \o run.input.chain \o NL
                     \o K_ENV_VERSION \o run.input.version \o NL
                     \o K_ENV_PREVIOUS \o run.input.version \o NL

=============================================================================
